---- MODULE Spec2Model ----
(***************************************************************************)
(* The ballot session of the voting screen (VoteScreen, src/app/home.tsx). *)
(*                                                                         *)
(* The component's useState hooks are the variables of the same name.  An  *)
(* async handler is one entry of `calls`: it captures the values of its    *)
(* closure when it is invoked and then advances one await at a time, so    *)
(* several invocations may be suspended at once.  The device's biometric   *)
(* service, the two credential stores and the backend are the environment: *)
(* their answers are chosen with \E when an await resolves.                *)
(***************************************************************************)
EXTENDS Integers, Sequences, FiniteSets, Bags, TLC

\* ------------------------------------------------------------------ bounds
MaxInFlight == 2        \* handler invocations that may be suspended at once
MaxVotesInFlight == 3   \* the same, for the screen with the vote button alone

\* ------------------------------------------------------------- value sets
Null == "<null>"                \* JS null / undefined
UnknownPosition == "Unknown Position"

\* Candidate identifiers: "n:k" is the number k, "s:..." a string.
CandidateIds == {"n:0", "n:1", "n:2", "n:3"}

\* The request a suspended invocation has in flight while its pc is "fetch":
\* the JSON body of the POST and the Authorization header (Null: none).
Request(call) ==
    [votes |-> IF call.kind = "vote"
               THEN <<[position |-> call.position, candidateId |-> call.candidateId]>>
               ELSE call.votes,
     batch |-> call.kind = "final",
     authorization |-> IF call.token # Null THEN <<"Bearer", call.token>>
                       ELSE Null]

\* A record of the candidate listing; Null is a record without position.
Candidate(id, position) == [id |-> id, position |-> position]

\* The payloads GET /api/candidates answers with in this model: no record;
\* one position with two candidates; two positions, one of them keyed like
\* an array index; three positions, one record without position; one
\* position with a candidate whose identifier is the number 0.
Catalogs ==
    { <<>>,
      <<Candidate("n:1", "President"), Candidate("n:2", "President")>>,
      <<Candidate("n:1", "President"), Candidate("n:2", "7")>>,
      <<Candidate("n:1", "President"), Candidate("n:2", Null),
        Candidate("n:3", "Secretary")>>,
      <<Candidate("n:0", "President"), Candidate("n:1", "President")>> }

SecureTokens == {Null, "jwt"}   \* SecureStore item jwt_token
CacheTokens == {Null, "tok"}    \* AsyncStorage item token

\* Mutant of Truthy: the selection guard lets every value through.
Truthy_guardDropped(v) == TRUE

\* JS truthiness of a selection lookup: undefined, 0 and '' are falsy.
Truthy(v) == v \notin {Null, "n:0", "s:"}

\* --------------------------------------------------- JS object key order
\* Own string keys that are canonical array indices enumerate first, in
\* ascending numeric order; the other keys follow in insertion order.
ArrayIndexKeys == {"7", "10"}
ArrayIndexValue(k) == IF k = "7" THEN 7 ELSE 10

KeyBefore(a, b) ==
    /\ a \in ArrayIndexKeys
    /\ b \in ArrayIndexKeys => ArrayIndexValue(a) < ArrayIndexValue(b)

HasKey(obj, key) == \E k \in 1..Len(obj) : obj[k].position = key

KeyIndex(obj, key) == CHOOSE k \in 1..Len(obj) : obj[k].position = key

\* obj[entry.position] = entry for a key the object does not have yet.
InsertKey(obj, entry) ==
    LET before == {k \in 1..Len(obj) : ~KeyBefore(entry.position, obj[k].position)}
        n == Cardinality(before)
    IN  SubSeq(obj, 1, n) \o <<entry>> \o SubSeq(obj, n + 1, Len(obj))

\* selectedVotes[position]
Lookup(votes, position) ==
    IF HasKey(votes, position) THEN votes[KeyIndex(votes, position)].candidateId
    ELSE Null

\* { ...prev, [position]: id }
SpreadSet(prev, position, id) ==
    IF HasKey(prev, position)
    THEN [prev EXCEPT ![KeyIndex(prev, position)].candidateId = id]
    ELSE InsertKey(prev, [position |-> position, candidateId |-> id])

\* ---------------------------------------------------------- pure helpers
\* candidate.position ?? 'Unknown Position'
PositionOf(candidate) ==
    IF candidate.position = Null THEN UnknownPosition ELSE candidate.position

RECURSIVE GroupReduce(_, _)
GroupReduce(data, acc) ==
    IF data = <<>> THEN acc
    ELSE LET candidate == Head(data)
             position == PositionOf(candidate)
         IN  GroupReduce(Tail(data),
               IF HasKey(acc, position)
               THEN [acc EXCEPT ![KeyIndex(acc, position)].candidates =
                                    Append(@, candidate)]
               ELSE InsertKey(acc, [position |-> position,
                                    candidates |-> <<candidate>>]))

\* Object.values(data.reduce(...))
GroupByPosition(data) == GroupReduce(data, <<>>)

\* Mutant of authenticateWithBiometrics: result.success is not looked at.
authenticateWithBiometrics_resultIgnored(compatible, enrolled, success) ==
    IF ~compatible \/ ~enrolled
    THEN "Fingerprint or Face ID not available on this device."
    ELSE Null

\* authenticateWithBiometrics: Null when it returns, else the message thrown
authenticateWithBiometrics(compatible, enrolled, success) ==
    IF ~compatible \/ ~enrolled
    THEN "Fingerprint or Face ID not available on this device."
    ELSE IF ~success THEN "Biometric verification was unsuccessful."
    ELSE Null

\* Mutant of getStoredToken: the cache is read before the secure store.
getStoredToken_cacheFirst(secure, cache, secureThrows, cacheThrows) ==
    IF cacheThrows THEN Null
    ELSE IF cache # Null THEN cache
    ELSE IF secureThrows THEN Null
    ELSE secure

\* getStoredToken: a throwing read yields null
getStoredToken(secure, cache, secureThrows, cacheThrows) ==
    IF secureThrows THEN Null
    ELSE IF secure # Null THEN secure
    ELSE IF cacheThrows THEN Null
    ELSE cache

\* Which return statement of getStoredToken was taken: the one after the
\* secure store answered, the one after the cache answered, or the `catch`.
ReadOutcome(secure, secureThrows, cacheThrows) ==
    IF secureThrows THEN "threw"
    ELSE IF secure # Null THEN "secure"
    ELSE IF cacheThrows THEN "threw"
    ELSE "cache"

\* Object.entries(selectedVotes).map(([position, candidateId]) => ...)
BatchPayload(votes) == votes


\* extractErrorMessage(error, fallback): every error thrown here is an Error
\* whose message is `message`; an empty message yields the fallback.
extractErrorMessage(message, fallback) ==
    IF message # "" /\ message # Null THEN message ELSE fallback

\* ------------------------------------------------------------------ state
VARIABLES
    mounted,            \* the screen is on the navigation stack
    route,              \* the route router.replace last navigated to
    loading, error, candidatesData, currentIndex, selectedVotes,
    isSubmitting, showCheck, overlayMessage, showSummary,
    secureStore,        \* SecureStore item jwt_token
    asyncStorage,       \* AsyncStorage item token
    calls,              \* the bag of handler invocations suspended at an await
    recorded,           \* positions whose per-category POST returned 2xx
    effects             \* what the latest step did to the outside

component == <<mounted, route, loading, error, candidatesData, currentIndex,
               selectedVotes, isSubmitting, showCheck, overlayMessage,
               showSummary>>
stores == <<secureStore, asyncStorage>>
vars == <<component, stores, calls, recorded, effects>>

\* An invocation: where it is suspended, what its closure captured (index,
\* position, candidateId, isLastCategory, votes), what the environment
\* answered it (verified, token, response, storage).  An invocation with pc
\* "auth" is a pending authenticateWithBiometrics call, with pc "token" a
\* pending getStoredToken call, with pc "fetch" a POST /api/vote in flight.
NoCall ==
    [pc |-> "idle", kind |-> "none", index |-> 0, position |-> "",
     candidateId |-> Null, isLastCategory |-> FALSE, votes |-> <<>>,
     verified |-> FALSE, token |-> Null, response |-> "none",
     storage |-> "none"]

Alert(title, message) == [title |-> title, message |-> message]
NoAlert == Alert("", "")

\* The latest step: the Alert it raised, what GET /api/candidates answered
\* and the listing it carried, how its getStoredToken call returned, and the
\* invocation that returned in
\* it (its handler, how it ended, the await it ended at and what the
\* environment had answered it).
NoEffects ==
    [alert |-> NoAlert, answer |-> "none", loaded |-> <<>>, read |-> "none",
     finished |-> [kind |-> "none", outcome |-> "none", at |-> "idle",
                   verified |-> FALSE, response |-> "none", storage |-> "none"]]

\* ------------------------------------------------------ derived by render
totalCategories == Len(candidatesData)
isLastCategory == currentIndex = totalCategories - 1
HasCurrentCategory == currentIndex + 1 \in 1..totalCategories
currentCategory == candidatesData[currentIndex + 1]
currentPosition == IF HasCurrentCategory THEN currentCategory.position ELSE ""

\* Which of the component's return statements renders.
View ==
    IF loading THEN "loading"
    ELSE IF error # Null THEN "error"
    ELSE IF ~HasCurrentCategory THEN "nodata"
    ELSE IF showSummary THEN "summary"
    ELSE "vote"

\* A state setter called after the screen was unmounted changes nothing.
Set(new, old) == IF mounted THEN new ELSE old

InFlight == BagToSet(calls)
Suspend(call) == calls (+) SetToBag({call})
Return(call) == calls (-) SetToBag({call})
Resume(call, next) == Return(call) (+) SetToBag({next})
CanInvoke == BagCardinality(calls) < MaxInFlight
CanInvokeVote == BagCardinality(calls) < MaxVotesInFlight

Init ==
    /\ mounted = TRUE
    /\ route = "/home"
    /\ loading = TRUE
    /\ error = Null
    /\ candidatesData = <<>>
    /\ currentIndex = 0
    /\ selectedVotes = <<>>
    /\ isSubmitting = FALSE
    /\ showCheck = FALSE
    /\ overlayMessage = ""
    /\ showSummary = FALSE
    /\ secureStore \in SecureTokens
    /\ asyncStorage \in CacheTokens
    /\ calls = EmptyBag
    /\ recorded = {}
    /\ effects = NoEffects

\* --------------------------------------------------------- fetchCandidates
\* What GET /api/candidates came to: a 2xx response whose body is an array,
\* or anything else.
Answer(throws, ok, isArray) ==
    IF throws \/ ~ok \/ ~isArray THEN "failure" ELSE "listing"

\* Mutant of fetchCandidates: res.ok is not looked at.
fetchCandidates_statusIgnored(throws, ok, isArray, data) ==
    /\ loading
    /\ LET failure == IF throws THEN "Network request failed"
                      ELSE IF ~isArray THEN "Unexpected response format."
                      ELSE Null
       IN  IF failure = Null
           THEN /\ candidatesData' = Set(GroupByPosition(data), candidatesData)
                /\ currentIndex' = Set(0, currentIndex)
                /\ selectedVotes' = Set(<<>>, selectedVotes)
                /\ error' = Set(Null, error)
           ELSE /\ error' = Set(extractErrorMessage(failure, "Failed to load candidates"),
                                error)
                /\ UNCHANGED <<candidatesData, currentIndex, selectedVotes>>
    /\ loading' = Set(FALSE, loading)
    /\ effects' = [NoEffects EXCEPT
                      !.answer = Answer(throws, ok, isArray),
                      !.loaded = IF Answer(throws, ok, isArray) = "listing"
                                 THEN data ELSE <<>>]
    /\ UNCHANGED <<mounted, route, isSubmitting, showCheck, overlayMessage,
                   showSummary, stores, calls, recorded>>

\* The effect's fetch resolves: `throws` a transport error, `ok` the status,
\* `isArray` the payload's shape, `data` the payload.
fetchCandidates(throws, ok, isArray, data) ==
    /\ loading
    /\ LET failure == IF throws THEN "Network request failed"
                      ELSE IF ~ok THEN "Failed to fetch: 500"
                      ELSE IF ~isArray THEN "Unexpected response format."
                      ELSE Null
       IN  IF failure = Null
           THEN /\ candidatesData' = Set(GroupByPosition(data), candidatesData)
                /\ currentIndex' = Set(0, currentIndex)
                /\ selectedVotes' = Set(<<>>, selectedVotes)
                /\ error' = Set(Null, error)
           ELSE /\ error' = Set(extractErrorMessage(failure, "Failed to load candidates"),
                                error)
                /\ UNCHANGED <<candidatesData, currentIndex, selectedVotes>>
    /\ loading' = Set(FALSE, loading)
    /\ effects' = [NoEffects EXCEPT
                      !.answer = Answer(throws, ok, isArray),
                      !.loaded = IF Answer(throws, ok, isArray) = "listing"
                                 THEN data ELSE <<>>]
    /\ UNCHANGED <<mounted, route, isSubmitting, showCheck, overlayMessage,
                   showSummary, stores, calls, recorded>>

\* ------------------------------------------------------------ handleSelect
\* Mutant of handleSelect: the selection is stored under the first category's
\* position instead of the current one's.
handleSelect_firstPosition(id) ==
    /\ IF ~HasCurrentCategory
       THEN UNCHANGED selectedVotes
       ELSE selectedVotes' = SpreadSet(selectedVotes, candidatesData[1].position, id)
    /\ effects' = NoEffects
    /\ UNCHANGED <<mounted, route, loading, error, candidatesData, currentIndex,
                   isSubmitting, showCheck, overlayMessage, showSummary,
                   stores, calls, recorded>>

handleSelect(id) ==
    /\ IF ~HasCurrentCategory
       THEN UNCHANGED selectedVotes
       ELSE selectedVotes' = SpreadSet(selectedVotes, currentCategory.position, id)
    /\ effects' = NoEffects
    /\ UNCHANGED <<mounted, route, loading, error, candidatesData, currentIndex,
                   isSubmitting, showCheck, overlayMessage, showSummary,
                   stores, calls, recorded>>

\* ------------------------------------------------------------- handleVote
\* What `effects` keeps of an invocation that returns.
Finish(call, how) ==
    [kind |-> call.kind, outcome |-> how, at |-> call.pc,
     verified |-> call.verified, response |-> call.response,
     storage |-> call.storage]

\* The `catch` of both handlers (Alert.alert) and the `finally` after it
\* (setIsSubmitting(false)); the invocation c returns, `how` it ended.
Failed(c, title, message, how) ==
    /\ isSubmitting' = Set(FALSE, isSubmitting)
    /\ calls' = Return(c)
    /\ effects' = [NoEffects EXCEPT !.alert = Alert(title, message),
                                    !.finished = how]

\* The handler up to its first await: the two guards, then the biometric call.
handleVote ==
    /\ IF ~HasCurrentCategory
       THEN /\ effects' = [NoEffects EXCEPT !.finished =
                              Finish([NoCall EXCEPT !.kind = "vote"], "ignored")]
            /\ UNCHANGED calls
       ELSE LET position == currentCategory.position
                selectedCandidateId == Lookup(selectedVotes, position)
                call == [NoCall EXCEPT !.pc = "auth", !.kind = "vote",
                                       !.index = currentIndex,
                                       !.position = position,
                                       !.candidateId = selectedCandidateId,
                                       !.isLastCategory = isLastCategory]
            IN  IF ~Truthy(selectedCandidateId)
                THEN /\ effects' = [NoEffects EXCEPT
                            !.alert = Alert("No Selection",
                                "Please select a candidate before proceeding."),
                            !.finished = Finish([call EXCEPT !.pc = "idle"],
                                                "blocked")]
                     /\ UNCHANGED calls
                ELSE /\ calls' = Suspend(call)
                     /\ effects' = NoEffects
    /\ UNCHANGED <<component, stores, recorded>>

\* await authenticateWithBiometrics(...) resolves; then setIsSubmitting(true)
\* and getStoredToken() is called.
VoteAuthResolved(c, compatible, enrolled, success) ==
    /\ c \in InFlight /\ c.pc = "auth" /\ c.kind = "vote"
    /\ LET thrown == authenticateWithBiometrics(compatible, enrolled, success)
           call == [c EXCEPT !.verified = compatible /\ enrolled /\ success]
       IN  IF thrown # Null
           THEN Failed(c, "Vote Failed",
                       extractErrorMessage(thrown, "Unable to cast your vote. Try again."),
                       Finish(call, "authFailed"))
           ELSE /\ isSubmitting' = Set(TRUE, isSubmitting)
                /\ calls' = Resume(c, [call EXCEPT !.pc = "token"])
                /\ effects' = NoEffects
    /\ UNCHANGED <<mounted, route, loading, error, candidatesData, currentIndex,
                   selectedVotes, showCheck, overlayMessage, showSummary,
                   stores, recorded>>

\* await getStoredToken() resolves; fetch(POST /api/vote) is called.
VoteTokenResolved(c, secureThrows, cacheThrows) ==
    /\ c \in InFlight /\ c.pc = "token" /\ c.kind = "vote"
    /\ LET token == getStoredToken(secureStore, asyncStorage, secureThrows, cacheThrows)
       IN  calls' = Resume(c, [c EXCEPT !.pc = "fetch", !.token = token])
    /\ effects' = [NoEffects EXCEPT
                      !.read = ReadOutcome(secureStore, secureThrows, cacheThrows)]
    /\ UNCHANGED <<component, stores, recorded>>

\* What a POST can come to: a 2xx response, a non-2xx response with or
\* without a body text, a rejected fetch.
Responses == {"ok", "text", "empty", "throws"}

ResponseMessage(response) ==
    IF response = "text" THEN "server text"
    ELSE IF response = "throws" THEN "Network request failed"
    ELSE ""

\* Mutant of VoteResponded: a rejected fetch is issued again.
VoteResponded_retried(c, response) ==
    /\ c \in InFlight /\ c.pc = "fetch" /\ c.kind = "vote"
    /\ LET call == [c EXCEPT !.response = response, !.token = Null]
       IN  IF response = "throws" /\ c.response = "none"
           THEN /\ calls' = Resume(c, [c EXCEPT !.response = response])
                /\ effects' = NoEffects
                /\ UNCHANGED <<isSubmitting, showCheck, overlayMessage, recorded>>
           ELSE IF response # "ok"
           THEN /\ Failed(c, "Vote Failed",
                          extractErrorMessage(
                              extractErrorMessage(ResponseMessage(response),
                                                  "Vote submission failed."),
                              "Unable to cast your vote. Try again."),
                          Finish(call, "submitFailed"))
                /\ UNCHANGED <<showCheck, overlayMessage, recorded>>
           ELSE /\ overlayMessage' = Set("Vote Recorded!", overlayMessage)
                /\ showCheck' = Set(TRUE, showCheck)
                /\ recorded' = recorded \cup {call.position}
                /\ calls' = Resume(c, [call EXCEPT !.pc = "overlay"])
                /\ effects' = NoEffects
                /\ UNCHANGED isSubmitting
    /\ UNCHANGED <<mounted, route, loading, error, candidatesData, currentIndex,
                   selectedVotes, showSummary, stores>>

\* await fetch(...) resolves; on 2xx showAnimatedCheck('Vote Recorded!') starts.
VoteResponded(c, response) ==
    /\ c \in InFlight /\ c.pc = "fetch" /\ c.kind = "vote"
    /\ LET call == [c EXCEPT !.response = response, !.token = Null]
       IN  IF response # "ok"
           THEN /\ Failed(c, "Vote Failed",
                          extractErrorMessage(
                              extractErrorMessage(ResponseMessage(response),
                                                  "Vote submission failed."),
                              "Unable to cast your vote. Try again."),
                          Finish(call, "submitFailed"))
                /\ UNCHANGED <<showCheck, overlayMessage, recorded>>
           ELSE /\ overlayMessage' = Set("Vote Recorded!", overlayMessage)
                /\ showCheck' = Set(TRUE, showCheck)
                /\ recorded' = recorded \cup {call.position}
                /\ calls' = Resume(c, [call EXCEPT !.pc = "overlay"])
                /\ effects' = NoEffects
                /\ UNCHANGED isSubmitting
    /\ UNCHANGED <<mounted, route, loading, error, candidatesData, currentIndex,
                   selectedVotes, showSummary, stores>>

\* await showAnimatedCheck(...) resolves; the cursor advances or the summary
\* opens; finally setIsSubmitting(false).
VoteOverlayDone(c) ==
    /\ c \in InFlight /\ c.pc = "overlay" /\ c.kind = "vote"
    /\ showCheck' = Set(FALSE, showCheck)
    /\ overlayMessage' = Set("", overlayMessage)
    /\ IF ~c.isLastCategory
       THEN /\ currentIndex' = Set(currentIndex + 1, currentIndex)
            /\ UNCHANGED showSummary
       ELSE /\ showSummary' = Set(TRUE, showSummary)
            /\ UNCHANGED currentIndex
    /\ isSubmitting' = Set(FALSE, isSubmitting)
    /\ calls' = Return(c)
    /\ effects' = [NoEffects EXCEPT !.finished = Finish(c, "done")]
    /\ UNCHANGED <<mounted, route, loading, error, candidatesData, selectedVotes,
                   stores, recorded>>

\* -------------------------------------------------------- handleFinalSubmit
\* The handler up to its first await: the biometric call, with no guard
\* before it.
handleFinalSubmit ==
    /\ calls' = Suspend([NoCall EXCEPT !.pc = "auth", !.kind = "final",
                                        !.index = currentIndex,
                                        !.votes = selectedVotes])
    /\ effects' = NoEffects
    /\ UNCHANGED <<component, stores, recorded>>

\* await authenticateWithBiometrics(...) resolves; the payload is built and
\* checked; then setIsSubmitting(true) and getStoredToken() is called.
FinalAuthResolved(c, compatible, enrolled, success) ==
    /\ c \in InFlight /\ c.pc = "auth" /\ c.kind = "final"
    /\ LET thrown == authenticateWithBiometrics(compatible, enrolled, success)
           payload == BatchPayload(c.votes)
           call == [c EXCEPT !.verified = compatible /\ enrolled /\ success]
       IN  IF thrown # Null
           THEN Failed(c, "Submission Failed",
                       extractErrorMessage(thrown, "Unable to submit votes. Try again."),
                       Finish(call, "authFailed"))
           ELSE IF Len(payload) = 0
           THEN Failed(c, "No Votes", "You have not selected any candidates.",
                       Finish(call, "blocked"))
           ELSE /\ isSubmitting' = Set(TRUE, isSubmitting)
                /\ calls' = Resume(c, [call EXCEPT !.pc = "token"])
                /\ effects' = NoEffects
    /\ UNCHANGED <<mounted, route, loading, error, candidatesData, currentIndex,
                   selectedVotes, showCheck, overlayMessage, showSummary,
                   stores, recorded>>

\* await getStoredToken() resolves; fetch(POST /api/vote) is called.
FinalTokenResolved(c, secureThrows, cacheThrows) ==
    /\ c \in InFlight /\ c.pc = "token" /\ c.kind = "final"
    /\ LET token == getStoredToken(secureStore, asyncStorage, secureThrows, cacheThrows)
       IN  calls' = Resume(c, [c EXCEPT !.pc = "fetch", !.token = token])
    /\ effects' = [NoEffects EXCEPT
                      !.read = ReadOutcome(secureStore, secureThrows, cacheThrows)]
    /\ UNCHANGED <<component, stores, recorded>>

\* Mutant of FinalResponded: response.ok is not looked at (a rejected fetch
\* still throws).
FinalResponded_statusIgnored(c, response) ==
    /\ c \in InFlight /\ c.pc = "fetch" /\ c.kind = "final"
    /\ LET call == [c EXCEPT !.response = response, !.token = Null]
       IN  IF response = "throws"
           THEN /\ Failed(c, "Submission Failed",
                          extractErrorMessage(ResponseMessage(response),
                                              "Unable to submit votes. Try again."),
                          Finish(call, "submitFailed"))
                /\ UNCHANGED <<showCheck, overlayMessage>>
           ELSE /\ overlayMessage' = Set("All Votes Submitted!", overlayMessage)
                /\ showCheck' = Set(TRUE, showCheck)
                /\ calls' = Resume(c, [call EXCEPT !.pc = "overlay"])
                /\ effects' = NoEffects
                /\ UNCHANGED isSubmitting
    /\ UNCHANGED <<mounted, route, loading, error, candidatesData, currentIndex,
                   selectedVotes, showSummary, stores, recorded>>

\* await fetch(...) resolves; on 2xx showAnimatedCheck('All Votes Submitted!')
\* starts.
FinalResponded(c, response) ==
    /\ c \in InFlight /\ c.pc = "fetch" /\ c.kind = "final"
    /\ LET call == [c EXCEPT !.response = response, !.token = Null]
       IN  IF response # "ok"
           THEN /\ Failed(c, "Submission Failed",
                          extractErrorMessage(
                              extractErrorMessage(ResponseMessage(response),
                                                  "Failed to submit votes"),
                              "Unable to submit votes. Try again."),
                          Finish(call, "submitFailed"))
                /\ UNCHANGED <<showCheck, overlayMessage>>
           ELSE /\ overlayMessage' = Set("All Votes Submitted!", overlayMessage)
                /\ showCheck' = Set(TRUE, showCheck)
                /\ calls' = Resume(c, [call EXCEPT !.pc = "overlay"])
                /\ effects' = NoEffects
                /\ UNCHANGED isSubmitting
    /\ UNCHANGED <<mounted, route, loading, error, candidatesData, currentIndex,
                   selectedVotes, showSummary, stores, recorded>>

\* await showAnimatedCheck(...) resolves; AsyncStorage.clear() is called.
FinalOverlayDone(c) ==
    /\ c \in InFlight /\ c.pc = "overlay" /\ c.kind = "final"
    /\ showCheck' = Set(FALSE, showCheck)
    /\ overlayMessage' = Set("", overlayMessage)
    /\ calls' = Resume(c, [c EXCEPT !.pc = "clear"])
    /\ effects' = NoEffects
    /\ UNCHANGED <<mounted, route, loading, error, candidatesData, currentIndex,
                   selectedVotes, isSubmitting, showSummary, stores, recorded>>

\* Mutant of Close: the inner `finally` does not call setSelectedVotes({}).
Close_selectionsKept(c, storage) ==
    /\ selectedVotes' = selectedVotes
    /\ isSubmitting' = Set(FALSE, isSubmitting)
    /\ route' = "/"
    /\ mounted' = FALSE
    /\ calls' = Return(c)
    /\ effects' = [NoEffects EXCEPT !.finished =
                      Finish([c EXCEPT !.storage = storage], "done")]

\* The inner `finally` (setSelectedVotes({}), router.replace('/')) and the
\* outer one (setIsSubmitting(false)); the replaced screen unmounts.
Close(c, storage) ==
    /\ selectedVotes' = Set(<<>>, selectedVotes)
    /\ isSubmitting' = Set(FALSE, isSubmitting)
    /\ route' = "/"
    /\ mounted' = FALSE
    /\ calls' = Return(c)
    /\ effects' = [NoEffects EXCEPT !.finished =
                      Finish([c EXCEPT !.storage = storage], "done")]

\* Mutant of FinalClearResolved: no inner try, so a rejected clear() reaches
\* the handler's own `catch`.
FinalClearResolved_uncaught(c, throws) ==
    /\ c \in InFlight /\ c.pc = "clear" /\ c.kind = "final"
    /\ IF throws
       THEN /\ Failed(c, "Submission Failed", "storage error",
                      Finish([c EXCEPT !.storage = "clearThrew"], "submitFailed"))
            /\ UNCHANGED <<asyncStorage, selectedVotes, route, mounted>>
       ELSE /\ asyncStorage' = Null
            /\ calls' = Resume(c, [c EXCEPT !.pc = "delete"])
            /\ effects' = NoEffects
            /\ UNCHANGED <<selectedVotes, isSubmitting, route, mounted>>
    /\ UNCHANGED <<loading, error, candidatesData, currentIndex, showCheck,
                   overlayMessage, showSummary, secureStore, recorded>>

\* await AsyncStorage.clear() resolves or rejects; on success
\* SecureStore.deleteItemAsync('jwt_token') is called.
FinalClearResolved(c, throws) ==
    /\ c \in InFlight /\ c.pc = "clear" /\ c.kind = "final"
    /\ IF throws
       THEN /\ Close(c, "clearThrew")
            /\ UNCHANGED asyncStorage
       ELSE /\ asyncStorage' = Null
            /\ calls' = Resume(c, [c EXCEPT !.pc = "delete"])
            /\ effects' = NoEffects
            /\ UNCHANGED <<selectedVotes, isSubmitting, route, mounted>>
    /\ UNCHANGED <<loading, error, candidatesData, currentIndex, showCheck,
                   overlayMessage, showSummary, secureStore, recorded>>

\* await SecureStore.deleteItemAsync('jwt_token') resolves or rejects.
FinalDeleteResolved(c, throws) ==
    /\ c \in InFlight /\ c.pc = "delete" /\ c.kind = "final"
    /\ IF throws
       THEN /\ Close(c, "deleteThrew")
            /\ UNCHANGED secureStore
       ELSE /\ secureStore' = Null
            /\ Close(c, "cleared")
    /\ UNCHANGED <<loading, error, candidatesData, currentIndex, showCheck,
                   overlayMessage, showSummary, asyncStorage, recorded>>

\* ------------------------------------------------------------ what renders
\* The candidate cards of the voting view (disabled while isSubmitting).
PressCandidate(id) ==
    /\ mounted /\ View = "vote" /\ ~isSubmitting
    /\ \E k \in 1..Len(currentCategory.candidates) :
           currentCategory.candidates[k].id = id
    /\ handleSelect(id)

\* The vote button of the voting view.
PressVote ==
    /\ mounted /\ View = "vote"
    /\ ~(~Truthy(Lookup(selectedVotes, currentCategory.position)) \/ isSubmitting)
    /\ handleVote

\* The submit button of the summary view.
PressSubmitVotes ==
    /\ mounted /\ View = "summary" /\ ~isSubmitting
    /\ handleFinalSubmit

FetchResolves ==
    \E throws, ok, isArray \in BOOLEAN : \E data \in Catalogs :
        fetchCandidates(throws, ok, isArray, data)

\* An await of a suspended invocation resolves.
CallResumes ==
    \/ \E c \in InFlight : \E compatible, enrolled, success \in BOOLEAN :
          VoteAuthResolved(c, compatible, enrolled, success)
    \/ \E c \in InFlight : \E secureThrows, cacheThrows \in BOOLEAN :
          VoteTokenResolved(c, secureThrows, cacheThrows)
    \/ \E c \in InFlight : \E response \in Responses :
          VoteResponded(c, response)
    \/ \E c \in InFlight : VoteOverlayDone(c)
    \/ \E c \in InFlight : \E compatible, enrolled, success \in BOOLEAN :
          FinalAuthResolved(c, compatible, enrolled, success)
    \/ \E c \in InFlight : \E secureThrows, cacheThrows \in BOOLEAN :
          FinalTokenResolved(c, secureThrows, cacheThrows)
    \/ \E c \in InFlight : \E response \in Responses :
          FinalResponded(c, response)
    \/ \E c \in InFlight : FinalOverlayDone(c)
    \/ \E c \in InFlight : \E throws \in BOOLEAN :
          FinalClearResolved(c, throws)
    \/ \E c \in InFlight : \E throws \in BOOLEAN :
          FinalDeleteResolved(c, throws)

Next ==
    \/ FetchResolves
    \/ \E id \in CandidateIds : PressCandidate(id)
    \/ CanInvoke /\ PressVote
    \/ CanInvoke /\ PressSubmitVotes
    \/ CallResumes

Spec == Init /\ [][Next]_vars

\* The two intent handlers invoked directly on the mounted screen while no
\* other invocation is suspended, whatever the view and the `disabled` props
\* of the two buttons allow: the handlers' own guards alone decide.
Quiescent == mounted /\ calls = EmptyBag

NextHandlers ==
    \/ FetchResolves
    \/ \E id \in CandidateIds : PressCandidate(id)
    \/ Quiescent /\ handleVote
    \/ Quiescent /\ handleFinalSubmit
    \/ CallResumes

SpecHandlers == Init /\ [][NextHandlers]_vars

\* The screen when every pending await eventually resolves: the biometric
\* call, the credential read, the network call, the overlay animation and
\* the storage calls of a suspended invocation.
SpecLive == Init /\ [][Next]_vars /\ WF_vars(CallResumes)

\* The voting view alone: candidate cards and the vote button, pressed while
\* up to MaxVotesInFlight invocations of handleVote are suspended.
NextVotes ==
    \/ FetchResolves
    \/ \E id \in CandidateIds : PressCandidate(id)
    \/ CanInvokeVote /\ PressVote
    \/ \E c \in InFlight : \E compatible, enrolled, success \in BOOLEAN :
          VoteAuthResolved(c, compatible, enrolled, success)
    \/ \E c \in InFlight : \E secureThrows, cacheThrows \in BOOLEAN :
          VoteTokenResolved(c, secureThrows, cacheThrows)
    \/ \E c \in InFlight : \E response \in Responses :
          VoteResponded(c, response)
    \/ \E c \in InFlight : VoteOverlayDone(c)

SpecVotes == Init /\ [][NextVotes]_vars

\* ================================================================ claims
Finished == effects.finished

\* The invocation c returns in this step, failing.
ReturnsFailed(c) ==
    /\ calls' = Return(c)
    /\ effects'.finished.kind = c.kind
    /\ effects'.finished.outcome \in {"authFailed", "submitFailed"}

\* The step removes a key from selectedVotes.
DropsSelection ==
    \E k \in 1..Len(selectedVotes) : ~HasKey(selectedVotes', selectedVotes[k].position)

\* C1: the cursor never stands past a category whose per-category POST has
\* not returned 2xx: every category before the cursor has been recorded.
C1_CursorBehindRecorded ==
    \A k \in 1..totalCategories :
        k <= currentIndex => candidatesData[k].position \in recorded

\* C2: single-flight gate: while an invocation is authenticating or
\* submitting the busy flag is set, and at most one invocation is in flight.
C2_SingleFlightGate ==
    /\ \A c \in InFlight : c.pc \in {"auth", "token", "fetch"} => isSubmitting
    /\ BagCardinality(calls) <= 1

\* C3: an invocation reads the credential and issues its POST only after the
\* device verified the voter in that same invocation: every invocation past
\* the biometric await was verified, and one that was not verified returns
\* from the biometric await, before getStoredToken and fetch.
C3_PostOnlyAfterBiometrics ==
    /\ \A c \in InFlight : c.pc # "auth" => c.verified
    /\ (Finished.kind \in {"vote", "final"} /\ Finished.at # "idle"
            /\ ~Finished.verified)
         => Finished.at = "auth" /\ Finished.response = "none"

C3_Witness ==
    /\ Finished.outcome = "authFailed"
    /\ ~Finished.verified
    /\ calls = EmptyBag

\* C4: a handleVote for category i that fails at the biometric step or at the
\* submission leaves the session in Ready(i): cursor i, no review mode,
\* selections unchanged with i's selection present, busy flag cleared.
C4_FailedVoteReturnsToReady ==
    [][\A c \in InFlight :
          (c.kind = "vote" /\ ReturnsFailed(c))
            => /\ currentIndex' = c.index
               /\ ~showSummary'
               /\ selectedVotes' = selectedVotes
               /\ HasKey(selectedVotes', c.position)
               /\ ~isSubmitting']_vars

\* C5: a handleVote without a selection for the current category never
\* reaches the biometric service or the network (no invocation is suspended
\* without a captured selection), and the step that blocks it changes nothing
\* of the session.
C5_NoSelectionVoteIsNoOp ==
    /\ [](\A c \in InFlight : c.kind = "vote" => c.candidateId # Null)
    /\ [][(effects'.finished.kind = "vote" /\ effects'.finished.outcome = "blocked")
            => UNCHANGED <<component, stores, calls, recorded>>]_vars

C5_Witness ==
    /\ Finished.kind = "vote" /\ Finished.outcome = "blocked"
    /\ View = "vote"
    /\ ~HasKey(selectedVotes, currentCategory.position)

\* C6: a handleFinalSubmit with an empty selections mapping requests no
\* biometric verification: no final invocation that captured an empty
\* mapping is ever suspended.
C6_EmptyFinalSubmitBlocked ==
    \A c \in InFlight : c.kind = "final" => Len(c.votes) > 0

\* C7 as stated: when a final invocation whose batch POST returned 2xx
\* returns, the session is Closed, selections are empty and both stores are
\* cleared.
C7_ClosedAndCredentialCleared ==
    (Finished.kind = "final" /\ Finished.response = "ok")
      => /\ route = "/" /\ ~mounted
         /\ selectedVotes = <<>>
         /\ secureStore = Null /\ asyncStorage = Null

\* C7 amended: when a final invocation whose batch POST returned 2xx returns,
\* the session is Closed and selections are empty; both stores are cleared
\* when neither clearing call threw, and the cache alone when only the
\* deletion of jwt_token threw.
C7_ClosedAndClearedUnlessStorageThrew ==
    (Finished.kind = "final" /\ Finished.response = "ok")
      => /\ route = "/" /\ ~mounted
         /\ selectedVotes = <<>>
         /\ Finished.storage \in {"cleared", "clearThrew", "deleteThrew"}
         /\ Finished.storage = "cleared" => secureStore = Null /\ asyncStorage = Null
         /\ Finished.storage = "deleteThrew" => asyncStorage = Null

C7_Witness ==
    /\ Finished.kind = "final" /\ Finished.response = "ok"
    /\ Finished.storage = "cleared"
    /\ route = "/"

\* C8: a step changes a credential store only as the clearing step of a
\* final invocation that was verified and whose batch POST returned 2xx.
C8_CredentialClearedOnlyAfterBatchSuccess ==
    [][(secureStore' # secureStore \/ asyncStorage' # asyncStorage)
         => \E c \in InFlight :
               /\ c.kind = "final" /\ c.pc \in {"clear", "delete"}
               /\ c.verified /\ c.response = "ok"
               /\ calls' # calls]_vars

C8_Witness ==
    /\ Finished.kind = "final" /\ Finished.outcome = "submitFailed"
    /\ secureStore = "jwt" /\ asyncStorage = "tok"

\* C9: when a clearing call throws after a 2xx batch POST, the invocation
\* still returns through the terminal transition: Closed, selections empty,
\* and no Alert.
C9_StorageFailureStillCloses ==
    Finished.storage \in {"clearThrew", "deleteThrew"}
      => /\ Finished.outcome = "done"
         /\ route = "/" /\ ~mounted
         /\ selectedVotes = <<>>
         /\ effects.alert = NoAlert

C9_Witness ==
    /\ Finished.storage = "clearThrew"
    /\ Finished.response = "ok"
    /\ secureStore = "jwt"

\* C10: once loading is over, a step removes a key from selectedVotes only as
\* the return of a final invocation that was verified and whose batch POST
\* returned 2xx.
C10_SelectionsDroppedOnlyByFinalSuccess ==
    [][(~loading /\ DropsSelection)
         => \E c \in InFlight :
               /\ c.kind = "final" /\ c.verified /\ c.response = "ok"
               /\ calls' = Return(c)
               /\ effects'.finished.outcome = "done"]_vars

C10_Witness ==
    /\ Finished.kind = "final" /\ Finished.outcome = "done"
    /\ selectedVotes = <<>>
    /\ currentIndex > 0

\* Category k's per-category POST returned 2xx and the session has advanced
\* past it.
SubmittedAndPassed(k) ==
    /\ candidatesData[k].position \in recorded
    /\ k <= currentIndex \/ showSummary

\* C11: while the screen is mounted, the selection of a category that was
\* submitted and advanced past is present, and no step that leaves the screen
\* mounted changes its candidate identifier.
C11_PassedSelectionFrozen ==
    /\ [](\A k \in 1..totalCategories :
            (mounted /\ SubmittedAndPassed(k))
              => HasKey(selectedVotes, candidatesData[k].position))
    /\ [][\A k \in 1..totalCategories :
            (SubmittedAndPassed(k) /\ mounted')
              => Lookup(selectedVotes', candidatesData[k].position)
                   = Lookup(selectedVotes, candidatesData[k].position)]_vars

\* A later handleSelect has stored a selection for the category after a
\* submitted one.
C11_Witness ==
    /\ mounted /\ currentIndex = 1 /\ totalCategories >= 2
    /\ candidatesData[1].position \in recorded
    /\ HasKey(selectedVotes, candidatesData[1].position)
    /\ HasKey(selectedVotes, candidatesData[2].position)

\* C12: the cursor is 0 when the catalog has loaded, moves only by +1 and
\* stays within 0..categoryCount.
C12_CursorMonotoneWithinCount ==
    /\ [](currentIndex >= 0 /\ currentIndex <= totalCategories)
    /\ [][(loading /\ ~loading') => currentIndex' = 0]_vars
    /\ [][currentIndex' = currentIndex \/ currentIndex' = currentIndex + 1]_vars

\* The step issues the POST of the invocation c (getStoredToken has resolved
\* and fetch is called).
IssuesPost(c) ==
    /\ c.pc = "token"
    /\ \E d \in BagToSet(calls') :
          /\ d = [c EXCEPT !.pc = "fetch", !.token = d.token]
          /\ calls' = Resume(c, d)

\* The invocation c returns in this step after its overlay.
ReturnsDone(c) ==
    /\ calls' = Return(c)
    /\ effects'.finished.kind = c.kind
    /\ effects'.finished.outcome = "done"

\* C13: review mode is entered by, and only by, the return of a handleVote for
\* the last category whose POST returned 2xx; and in review mode no
\* per-category POST is issued.
C13_ReviewingAfterLastVoteOnly ==
    /\ [][(showSummary' /\ ~showSummary)
            => \E c \in InFlight :
                  /\ c.kind = "vote" /\ ReturnsDone(c)
                  /\ c.response = "ok" /\ c.index = totalCategories - 1]_vars
    /\ [][\A c \in InFlight :
            (mounted /\ c.kind = "vote" /\ ReturnsDone(c)
                /\ c.index = totalCategories - 1) => showSummary']_vars
    /\ [][showSummary
            => ~(\E c \in InFlight : c.kind = "vote" /\ IssuesPost(c))]_vars

\* C14: a handleFinalSubmit that fails at the biometric step or at the batch
\* submission leaves the session in Reviewing: the summary still renders,
\* selections and both credential stores are unchanged, nothing navigated,
\* busy flag cleared.
C14_FailedFinalReturnsToReviewing ==
    [][\A c \in InFlight :
          (c.kind = "final" /\ ReturnsFailed(c))
            => /\ mounted' /\ route' = "/home"
               /\ View' = "summary"
               /\ selectedVotes' = selectedVotes
               /\ selectedVotes' = c.votes
               /\ UNCHANGED stores
               /\ ~isSubmitting']_vars

\* C15: the categories fetchCandidates stores are the listing's candidates
\* grouped by position label (default label when missing): the k-th category
\* is keyed by the k-th distinct label in first-seen order and holds, in
\* listing order, the candidates of that label.
C15_GroupsInFirstSeenOrder ==
    LET data == effects.loaded
        first == {i \in 1..Len(data) :
                    \A j \in 1..(i - 1) : PositionOf(data[j]) # PositionOf(data[i])}
        nth(k) == CHOOSE i \in first : Cardinality({j \in first : j < i}) = k - 1
        label(k) == PositionOf(data[nth(k)])
    IN  data # <<>>
          => candidatesData =
               [k \in 1..Cardinality(first) |->
                  [position |-> label(k),
                   candidates |->
                       SelectSeq(data, LAMBDA c : PositionOf(c) = label(k))]]

\* C16: in the voting view, when selectedVotes has an entry for the current
\* category and the screen is not busy, a vote-intent is accepted: the entry
\* passes the test that both the vote button's `disabled` prop and the
\* guard of handleVote apply to it.
C16_StoredSelectionPassesGuard ==
    (mounted /\ View = "vote" /\ ~isSubmitting
        /\ HasKey(selectedVotes, currentCategory.position))
      => Truthy(Lookup(selectedVotes, currentCategory.position))

\* The invocation the step that issues c's POST leaves in flight.
Posted(c) ==
    CHOOSE d \in BagToSet(calls') :
        /\ d = [c EXCEPT !.pc = "fetch", !.token = d.token]
        /\ calls' = Resume(c, d)

\* C17: the POST of either handler carries the secure store's jwt_token when
\* that read answered with one, else the cache's token when that read
\* answered, and no token when a read threw; the Authorization header is the
\* bearer of the resolved token, absent exactly when no token was resolved;
\* and an invocation never returns at the credential read.
C17_TokenResolution ==
    /\ [][\A c \in InFlight :
            IssuesPost(c) =>
              LET token == Posted(c).token
                  header == Request(Posted(c)).authorization
              IN  /\ effects'.read \in {"secure", "cache", "threw"}
                  /\ effects'.read = "secure"
                       => secureStore # Null /\ token = secureStore
                  /\ effects'.read = "cache"
                       => secureStore = Null /\ token = asyncStorage
                  /\ effects'.read = "threw" => token = Null
                  /\ header = Null <=> token = Null
                  /\ token # Null => header = <<"Bearer", token>>]_vars
    /\ [][\A c \in InFlight :
            (c.pc = "token" /\ calls' # calls /\ c \notin BagToSet(calls'))
              => IssuesPost(c)]_vars
    /\ [](Finished.at # "token")

\* A POST is in flight that carries the cache's token, the secure store
\* holding none.
C17_Witness ==
    /\ effects.read = "cache"
    /\ secureStore = Null /\ asyncStorage = "tok"
    /\ \E c \in InFlight :
          c.pc = "fetch" /\ Request(c).authorization = <<"Bearer", "tok">>

\* C18: a listing with at least one category leaves the session in Ready(0)
\* with empty selections; a failed load leaves it in Error, which no step
\* leaves and in which no invocation is ever in flight; an empty listing
\* leaves it in the no-data view with the error unset, which no step leaves
\* and in which no invocation is ever in flight.
C18_CatalogLoadOutcomes ==
    /\ [](effects.answer = "listing" /\ Len(effects.loaded) > 0
            => /\ View = "vote" /\ currentIndex = 0
               /\ selectedVotes = <<>> /\ error = Null)
    /\ [](effects.answer = "failure" => View = "error")
    /\ [](effects.answer = "listing" /\ Len(effects.loaded) = 0
            => View = "nodata" /\ error = Null)
    /\ [](View = "error" \/ (View = "nodata" /\ totalCategories = 0)
            => calls = EmptyBag /\ recorded = {})
    /\ [][View = "error" => View' = "error"]_vars
    /\ [][(View = "nodata" /\ totalCategories = 0)
            => (View' = "nodata" /\ totalCategories' = 0)]_vars

\* A failed load has left the session in Error.
C18_Witness ==
    /\ ~loading /\ View = "error"
    /\ effects.answer = "failure"

\* The session is in one of its stable states: Ready(i), Reviewing or Closed.
Stable == ~mounted \/ View \in {"vote", "summary"}

\* C19: while an invocation is in flight one eventually returns; a set busy
\* flag is eventually cleared; and when an invocation has returned and none
\* is left in flight, the busy flag is cleared and the session is stable.
C19_EveryIntentEnds ==
    /\ (calls # EmptyBag) ~> (Finished.kind \in {"vote", "final"})
    /\ isSubmitting ~> ~isSubmitting
    /\ []((Finished.kind \in {"vote", "final"} /\ calls = EmptyBag)
            => ~isSubmitting /\ Stable)

\* A handleVote invocation is showing its confirmation overlay.
VoteOverlayShown == \E c \in InFlight : c.kind = "vote" /\ c.pc = "overlay"

\* C20: while the overlay of a successful per-category submission is shown
\* the busy flag is set, and no step taken meanwhile accepts a vote-intent,
\* a final-submit intent or a candidate selection.
C20_BusyThroughOverlay ==
    /\ []((mounted /\ VoteOverlayShown) => (isSubmitting /\ showCheck))
    /\ [][(mounted /\ VoteOverlayShown)
            => /\ selectedVotes' = selectedVotes
               /\ BagCardinality(calls') <= BagCardinality(calls)]_vars
    /\ [][(mounted /\ VoteOverlayShown /\ isSubmitting /\ ~isSubmitting')
            => (currentIndex' = currentIndex + 1 \/ showSummary')]_vars

\* The await that follows the await `pc` in a handler.
NextAwait(kind, pc) ==
    IF pc = "auth" THEN "token"
    ELSE IF pc = "token" THEN "fetch"
    ELSE IF pc = "fetch" THEN "overlay"
    ELSE IF pc = "overlay" /\ kind = "final" THEN "clear"
    ELSE IF pc = "clear" THEN "delete"
    ELSE "idle"

\* C21: an invocation passes each of its awaits once: a step that resumes it
\* either returns it or suspends it at the next await of its handler, so its
\* biometric call and its POST are never made again; a failure returns it;
\* and a biometric call is pending for a new invocation only, which a press
\* alone starts.
C21_SingleAttempt ==
    /\ [][\A c \in InFlight :
            CopiesIn(c, calls') < CopiesIn(c, calls)
              => \/ calls' = Return(c)
                 \/ \E d \in BagToSet(calls') :
                       /\ calls' = Resume(c, d)
                       /\ d.kind = c.kind
                       /\ d.pc = NextAwait(c.kind, c.pc)]_vars
    /\ [][effects'.finished.outcome \in {"authFailed", "submitFailed"}
            => \E c \in InFlight : calls' = Return(c)]_vars
    /\ [][BagCardinality(calls') > BagCardinality(calls)
            => /\ \E d \in BagToSet(calls') :
                     calls' = Suspend(d) /\ d.pc = "auth" /\ ~d.verified
               /\ effects' = NoEffects
               /\ UNCHANGED <<component, stores, recorded>>]_vars

\* A handler whose POST was rejected has returned and nothing is in flight.
C21_Witness ==
    /\ Finished.outcome = "submitFailed" /\ Finished.response = "throws"
    /\ calls = EmptyBag /\ mounted

\* The position labels of the loaded categories.
LoadedPositions == {candidatesData[k].position : k \in 1..totalCategories}

\* C22: a step that changes selectedVotes while the screen stays mounted on
\* the loaded ballot stores a candidate of the current category under the
\* current category's position and leaves every other position's selection,
\* the cursor, the busy flag and the review flag as they were; selectedVotes
\* has one entry per position and only positions of loaded categories.
C22_SelectFrame ==
    /\ [][(~loading /\ mounted' /\ selectedVotes' # selectedVotes)
            => /\ HasCurrentCategory
               /\ \E k \in 1..Len(currentCategory.candidates) :
                     Lookup(selectedVotes', currentCategory.position)
                       = currentCategory.candidates[k].id
               /\ \A p \in LoadedPositions \ {currentCategory.position} :
                     /\ HasKey(selectedVotes', p) <=> HasKey(selectedVotes, p)
                     /\ Lookup(selectedVotes', p) = Lookup(selectedVotes, p)
               /\ UNCHANGED <<currentIndex, isSubmitting, showSummary>>]_vars
    /\ [](\A j, k \in 1..Len(selectedVotes) :
            selectedVotes[j].position = selectedVotes[k].position => j = k)
    /\ [](\A k \in 1..Len(selectedVotes) :
            selectedVotes[k].position \in LoadedPositions)

\* The second candidate of a category is selected, after or instead of the
\* first.
C22_Witness ==
    /\ mounted /\ View = "vote" /\ calls = EmptyBag
    /\ Len(currentCategory.candidates) = 2
    /\ Lookup(selectedVotes, currentCategory.position)
         = currentCategory.candidates[2].id

\* C23: when a handleVote whose POST returned 2xx returns (the cursor
\* advances or review mode is entered), the candidate its POST carried is the
\* one selectedVotes holds for its position.
C23_PostedCandidateIsSelection ==
    [][\A c \in InFlight :
          (mounted /\ c.kind = "vote" /\ ReturnsDone(c))
            => Lookup(selectedVotes', c.position) = c.candidateId]_vars

\* C24: while the summary renders, selectedVotes holds one entry per loaded
\* category, in category order (the order the selections were first made),
\* each a candidate of its category; the batch payload is not empty.
C24_ReviewingHasEverySelection ==
    (mounted /\ View = "summary")
      => /\ Len(selectedVotes) = totalCategories
         /\ \A k \in 1..Len(selectedVotes) :
               k <= totalCategories
                 => /\ selectedVotes[k].position = candidatesData[k].position
                    /\ \E n \in 1..Len(candidatesData[k].candidates) :
                          candidatesData[k].candidates[n].id
                            = selectedVotes[k].candidateId
         /\ Len(BatchPayload(selectedVotes)) > 0

====
